---- MODULE Spec2Model ----
(***************************************************************************)
(* Model of two units of the link-rendering slice:                         *)
(*                                                                         *)
(*   RenderLinksPipe.transform   (src/app/ui/pipes/render-links.pipe.ts)   *)
(*   UrlMetadataService          (src/app/util/url-metadata.service.ts)    *)
(*                                                                         *)
(* Text is modelled character by character.  A string is a sequence of     *)
(* cells; a cell is a character c together with two bookkeeping fields     *)
(* that the regular expressions and the string operations never read:      *)
(*   src  the index of the input character the cell derives from, 0 for a  *)
(*        character of a literal the engine itself wrote;                  *)
(*   n    the number of times the cell went through _escapeHtml.           *)
(***************************************************************************)
EXTENDS Integers, Sequences, FiniteSets, TLC

VARIABLES
    \* ---- RenderLinksPipe.transform ----
    text,           \* parameter text
    renderLinks,    \* parameter renderLinks
    rpc,            \* position inside transform
    htmlWithLinks,  \* local htmlWithLinks
    hasMarkdown,    \* local hasMarkdown
    hasUrls,        \* local hasUrls
    urlStepInput,   \* value of htmlWithLinks when the plain-URL step began
    out,            \* the returned html
    \* ---- UrlMetadataService ----
    isElectron,       \* _isElectron
    hasEa,            \* window.ea?.fetchUrlMetadata is there
    cache,            \* _cache
    pendingRequests,  \* _pendingRequests: url -> promise
    promises,         \* the fetchPromise objects created so far
    calls,            \* the fetchTitle calls made so far
    fetchCount,       \* per url, the network fetches issued so far
    fetchedSinceClear \* per url, those issued since the last clearCache

renderVars == <<text, renderLinks, rpc, htmlWithLinks, hasMarkdown, hasUrls,
                urlStepInput, out>>

serviceVars == <<isElectron, hasEa, cache, pendingRequests, promises, calls,
                 fetchCount, fetchedSinceClear>>

vars == <<renderVars, serviceVars>>

(***************************************************************************)
(* Bounds                                                                  *)
(***************************************************************************)
\* An input text is the concatenation of at most MaxPieces pieces.
MaxPieces == 2

\* fetchTitle is called at most MaxCalls times.
MaxCalls == 3

\* The clock of a request stops at MaxAge time units.
MaxAge == 6

\* With the clock running, fetchTitle is called at most MaxTimedCalls times.
MaxTimedCalls == 2

(***************************************************************************)
(* Characters and cells                                                    *)
(***************************************************************************)
Cell(ch, s, k) == [c |-> ch, src |-> s, n |-> k]

\* The input string: cell i is input character i, never escaped.
FromInput(chars) == [i \in 1..Len(chars) |-> Cell(chars[i], i, 0)]

\* A literal written by the engine.
Lit(chars) == [i \in 1..Len(chars) |-> Cell(chars[i], 0, 0)]

UpperCase ==
    <<"A","B","C","D","E","F","G","H","I","J","K","L","M",
      "N","O","P","Q","R","S","T","U","V","W","X","Y","Z">>

LowerCase ==
    <<"a","b","c","d","e","f","g","h","i","j","k","l","m",
      "n","o","p","q","r","s","t","u","v","w","x","y","z">>

Digits == {"0","1","2","3","4","5","6","7","8","9"}

\* \w of a regular expression
WordChars ==
    {UpperCase[k] : k \in 1..26} \cup {LowerCase[k] : k \in 1..26}
        \cup Digits \cup {"_"}

\* \s of a regular expression, and what String.prototype.trim removes
WhiteSpace == {" ", "\t", "\n", "\r", "\f"}

ToLowerChar(ch) ==
    IF \E k \in 1..26 : UpperCase[k] = ch
    THEN LowerCase[CHOOSE k \in 1..26 : UpperCase[k] = ch]
    ELSE ch

\* String.prototype.toLowerCase
ToLowerCase(t) == [i \in 1..Len(t) |-> [t[i] EXCEPT !.c = ToLowerChar(@)]]

\* String.prototype.trim
Trim(t) ==
    LET keep == {i \in 1..Len(t) : t[i].c \notin WhiteSpace}
    IN  IF keep = {} THEN <<>>
        ELSE SubSeq(t, CHOOSE i \in keep : \A j \in keep : i <= j,
                       CHOOSE i \in keep : \A j \in keep : i >= j)

\* lit occurs in t at position i
StartsWithAt(t, i, lit) ==
    /\ i >= 1
    /\ i + Len(lit) - 1 <= Len(t)
    /\ \A k \in 1..Len(lit) : t[i + k - 1].c = lit[k]

\* the same, ignoring case (flag i of a regular expression); lit is lower case
StartsWithAtIgnoreCase(t, i, lit) ==
    /\ i >= 1
    /\ i + Len(lit) - 1 <= Len(t)
    /\ \A k \in 1..Len(lit) : ToLowerChar(t[i + k - 1].c) = lit[k]

\* String.prototype.startsWith
StartsWith(t, lit) == StartsWithAt(t, 1, lit)

\* String.prototype.includes
Includes(t, lit) == \E i \in 1..Len(t) : StartsWithAt(t, i, lit)

\* first position >= i where lit occurs in t, 0 when there is none
RECURSIVE IndexOfFrom(_, _, _)
IndexOfFrom(t, lit, i) ==
    IF i + Len(lit) - 1 > Len(t) THEN 0
    ELSE IF StartsWithAt(t, i, lit) THEN i
    ELSE IndexOfFrom(t, lit, i + 1)

(***************************************************************************)
(* String literals of the source                                           *)
(***************************************************************************)
HttpPrefix == <<"h","t","t","p",":","/","/">>
HttpsPrefix == <<"h","t","t","p","s",":","/","/">>
FilePrefix == <<"f","i","l","e",":","/","/">>
WwwPrefix == <<"w","w","w",".">>
SchemeSep == <<":","/","/">>
SlashSlash == <<"/","/">>
MarkdownHint == <<"]","(">>
HttpsColon == <<"h","t","t","p","s",":">>

\* dangerousSchemes of _isUrlSchemeSafe
dangerousSchemes ==
    { <<"j","a","v","a","s","c","r","i","p","t",":">>,
      <<"d","a","t","a",":">>,
      <<"v","b","s","c","r","i","p","t",":">> }

AnchorOpen == <<"<","a"," ","h","r","e","f","=","\"">>
AnchorMid ==
    <<"\""," ","t","a","r","g","e","t","=","\"","_","b","l","a","n","k","\"",
      " ","r","e","l","=","\"","n","o","o","p","e","n","e","r"," ",
      "n","o","r","e","f","e","r","r","e","r","\"",">">>
AnchorClose == <<"<","/","a",">">>

EntAmp == <<"&","a","m","p",";">>
EntLt == <<"&","l","t",";">>
EntGt == <<"&","g","t",";">>
EntQuot == <<"&","q","u","o","t",";">>

\* the characters /[.,;!?]+$/ strips
TrailingPunctuation == {".", ",", ";", "!", "?"}

\* the cap of \S{1,2000} in URL_REGEX
MaxUrlLen == 2000

(***************************************************************************)
(* _escapeHtml                                                             *)
(***************************************************************************)
\* text.replace(/ch/g, entity): the entity's cells inherit the provenance of
\* the character they replace.
RECURSIVE ReplaceAll(_, _, _)
ReplaceAll(t, ch, entity) ==
    IF t = <<>> THEN <<>>
    ELSE (IF Head(t).c = ch
          THEN [k \in 1..Len(entity) |-> Cell(entity[k], Head(t).src, Head(t).n)]
          ELSE <<Head(t)>>)
         \o ReplaceAll(Tail(t), ch, entity)

\* every cell of the result has been through the escaper once more
CountEscape(t) == [i \in 1..Len(t) |-> [t[i] EXCEPT !.n = @ + 1]]

EscapeHtml(t) ==
    CountEscape(
        ReplaceAll(ReplaceAll(ReplaceAll(ReplaceAll(t,
            "&", EntAmp), "<", EntLt), ">", EntGt), "\"", EntQuot))

(***************************************************************************)
(* _isUrlSchemeSafe, _normalizeHref                                        *)
(***************************************************************************)
IsUrlSchemeSafe(url) ==
    LET lowerUrl == ToLowerCase(Trim(url))
    IN  IF \E scheme \in dangerousSchemes : StartsWith(lowerUrl, scheme)
        THEN FALSE
        ELSE IF \/ StartsWith(lowerUrl, HttpPrefix)
                \/ StartsWith(lowerUrl, HttpsPrefix)
                \/ StartsWith(lowerUrl, FilePrefix)
                \/ StartsWith(lowerUrl, SlashSlash)
        THEN TRUE
        ELSE IF ~Includes(lowerUrl, SchemeSep)
        THEN TRUE
        ELSE FALSE

NormalizeHref(url) ==
    IF \/ StartsWith(url, HttpPrefix)
       \/ StartsWith(url, HttpsPrefix)
       \/ StartsWith(url, FilePrefix)
    THEN url
    ELSE IF StartsWith(url, SlashSlash)
    THEN Lit(HttpsColon) \o url
    ELSE Lit(HttpPrefix) \o url

\* `<a href="${escapedHref}" target="_blank" rel="noopener noreferrer">${escaped}</a>`
AnchorTag(href, label) ==
    Lit(AnchorOpen) \o EscapeHtml(href) \o Lit(AnchorMid)
        \o EscapeHtml(label) \o Lit(AnchorClose)

(***************************************************************************)
(* MARKDOWN_LINK_REGEX  /\[([^\]]+)\]\(([^)]+)\)/g                         *)
(***************************************************************************)
\* The match that starts at p, if any.  [^\]]+ is greedy and must be followed
\* by "]", so the title runs to the first "]" after p; likewise the url runs
\* to the first ")" after the "(".  rb is the position of "]", rp of ")".
MarkdownMatchAt(t, p) ==
    LET rb == IndexOfFrom(t, <<"]">>, p + 1)
        rp == IF rb = 0 THEN 0 ELSE IndexOfFrom(t, <<")">>, rb + 2)
    IN  IF /\ t[p].c = "["
           /\ rb > p + 1
           /\ StartsWithAt(t, rb, MarkdownHint)
           /\ rp > rb + 2
        THEN [found |-> TRUE, rb |-> rb, rp |-> rp]
        ELSE [found |-> FALSE, rb |-> 0, rp |-> 0]

\* start of the leftmost match at or after p, 0 when there is none
RECURSIVE MarkdownFindFrom(_, _)
MarkdownFindFrom(t, p) ==
    IF p > Len(t) THEN 0
    ELSE IF MarkdownMatchAt(t, p).found THEN p
    ELSE MarkdownFindFrom(t, p + 1)

\* MARKDOWN_LINK_REGEX.test(text) with lastIndex = 0
MarkdownTest(t) == MarkdownFindFrom(t, 1) # 0

\* the replace callback (_match, title, url) => ...
MarkdownCallback(title, url) ==
    IF ~IsUrlSchemeSafe(url)
    THEN EscapeHtml(title)
    ELSE AnchorTag(NormalizeHref(url), title)

\* htmlWithLinks.replace(MARKDOWN_LINK_REGEX, callback), from position p on
RECURSIVE MarkdownReplaceFrom(_, _)
MarkdownReplaceFrom(t, p) ==
    LET s == MarkdownFindFrom(t, p)
    IN  IF s = 0 THEN SubSeq(t, p, Len(t))
        ELSE LET m == MarkdownMatchAt(t, s)
             IN  SubSeq(t, p, s - 1)
                 \o MarkdownCallback(SubSeq(t, s + 1, m.rb - 1),
                                     SubSeq(t, m.rb + 2, m.rp - 1))
                 \o MarkdownReplaceFrom(t, m.rp + 1)

MarkdownReplace(t) == MarkdownReplaceFrom(t, 1)

(***************************************************************************)
(* URL_REGEX                                                               *)
(*   /(?:(?:https?|file):\/\/\S{1,2000}(?=\s|$)|www\.\S{1,2000}(?=\s|$))/gi*)
(***************************************************************************)
\* length of the prefix (https?|file):// or www. matched at p, 0 when none
UrlPrefixLenAt(t, p) ==
    IF StartsWithAtIgnoreCase(t, p, HttpsPrefix) THEN Len(HttpsPrefix)
    ELSE IF StartsWithAtIgnoreCase(t, p, HttpPrefix) THEN Len(HttpPrefix)
    ELSE IF StartsWithAtIgnoreCase(t, p, FilePrefix) THEN Len(FilePrefix)
    ELSE IF StartsWithAtIgnoreCase(t, p, WwwPrefix) THEN Len(WwwPrefix)
    ELSE 0

\* number of consecutive \S characters from position i on
RECURSIVE NonSpaceRun(_, _)
NonSpaceRun(t, i) ==
    IF i > Len(t) \/ t[i].c \in WhiteSpace THEN 0
    ELSE 1 + NonSpaceRun(t, i + 1)

\* Last position of the match that starts at p, 0 when there is none.  The
\* greedy \S{1,2000} must stop in front of white space or the end of the
\* string: the match exists exactly when the run of \S after the prefix has
\* between 1 and 2000 characters, and it takes the whole run.
UrlMatchEnd(t, p) ==
    LET pl == UrlPrefixLenAt(t, p)
        run == NonSpaceRun(t, p + pl)
    IN  IF pl > 0 /\ run >= 1 /\ run <= MaxUrlLen THEN p + pl + run - 1 ELSE 0

RECURSIVE UrlFindFrom(_, _)
UrlFindFrom(t, p) ==
    IF p > Len(t) THEN 0
    ELSE IF UrlMatchEnd(t, p) # 0 THEN p
    ELSE UrlFindFrom(t, p + 1)

\* URL_REGEX.test(s) with lastIndex = 0
UrlTest(t) == UrlFindFrom(t, 1) # 0

\* url.replace(/[.,;!?]+$/, '')
RECURSIVE StripTrailingPunctuation(_)
StripTrailingPunctuation(url) ==
    IF url # <<>> /\ url[Len(url)].c \in TrailingPunctuation
    THEN StripTrailingPunctuation(SubSeq(url, 1, Len(url) - 1))
    ELSE url

\* the replace callback (url) => ...
UrlCallback(url) ==
    LET cleanUrl == StripTrailingPunctuation(url)
    IN  IF ~IsUrlSchemeSafe(cleanUrl)
        THEN EscapeHtml(cleanUrl)
        ELSE AnchorTag(NormalizeHref(cleanUrl), cleanUrl)

\* part.text.replace(URL_REGEX, callback), from position p on
RECURSIVE UrlReplaceFrom(_, _)
UrlReplaceFrom(t, p) ==
    LET s == UrlFindFrom(t, p)
    IN  IF s = 0 THEN SubSeq(t, p, Len(t))
        ELSE LET e == UrlMatchEnd(t, s)
             IN  SubSeq(t, p, s - 1)
                 \o UrlCallback(SubSeq(t, s, e))
                 \o UrlReplaceFrom(t, e + 1)

UrlReplace(t) == UrlReplaceFrom(t, 1)

(***************************************************************************)
(* anchorRegex  /<a\b[^>]*>.*?<\/a>/gs  and the segmentation into parts    *)
(***************************************************************************)
\* Last position of the match that starts at p, 0 when there is none:
\* "<a", a word boundary, everything up to the first ">", then everything
\* up to and including the first "</a>".
AnchorMatchEnd(t, p) ==
    IF /\ StartsWithAt(t, p, <<"<", "a">>)
       /\ (p + 2 > Len(t) \/ t[p + 2].c \notin WordChars)
    THEN LET gt == IndexOfFrom(t, <<">">>, p + 2)
             cl == IF gt = 0 THEN 0 ELSE IndexOfFrom(t, AnchorClose, gt + 1)
         IN  IF cl = 0 THEN 0 ELSE cl + Len(AnchorClose) - 1
    ELSE 0

RECURSIVE AnchorFindFrom(_, _)
AnchorFindFrom(t, p) ==
    IF p > Len(t) THEN 0
    ELSE IF AnchorMatchEnd(t, p) # 0 THEN p
    ELSE AnchorFindFrom(t, p + 1)

\* the while loop over anchorRegex.exec and the push of the rest; lastIndex
\* is the position after the previous anchor
RECURSIVE SplitParts(_, _)
SplitParts(t, lastIndex) ==
    LET s == AnchorFindFrom(t, lastIndex)
    IN  IF s = 0
        THEN IF lastIndex <= Len(t)
             THEN << [text |-> SubSeq(t, lastIndex, Len(t)), isAnchor |-> FALSE] >>
             ELSE <<>>
        ELSE LET e == AnchorMatchEnd(t, s)
             IN  (IF s > lastIndex
                  THEN << [text |-> SubSeq(t, lastIndex, s - 1), isAnchor |-> FALSE] >>
                  ELSE <<>>)
                 \o << [text |-> SubSeq(t, s, e), isAnchor |-> TRUE] >>
                 \o SplitParts(t, e + 1)

\* mutant: the anchor parts are rewritten like the others
MapPartRewritesAnchors(part) == UrlReplace(part.text)

\* the callback of parts.map
MapPart(part) == IF part.isAnchor THEN part.text ELSE UrlReplace(part.text)

\* parts.map(...).join('')
RECURSIVE JoinParts(_)
JoinParts(parts) ==
    IF parts = <<>> THEN <<>>
    ELSE MapPart(Head(parts)) \o JoinParts(Tail(parts))

\* the body of  if (hasUrls) { ... }
PlainUrlReplace(t) == JoinParts(SplitParts(t, 1))

(***************************************************************************)
(* UrlMetadataService: values                                              *)
(***************************************************************************)
\* The urls fetchTitle is called with: two remote pages and a local file.
Urls == {"a", "b", "f"}

UrlText(u) ==
    CASE u = "a" -> FromInput(<<"h","t","t","p",":","/","/","a">>)
      [] u = "b" -> FromInput(<<"h","t","t","p","s",":","/","/","b">>)
      [] u = "f" -> FromInput(<<"f","i","l","e",":","/","/","f">>)

\* The fallback titles callers pass.
Fallbacks == { <<"fallback", "x">>, <<"fallback", "y">> }

\* The title of the page at u, as its <title> tag or its og:title carries it.
TitleOf(u) == <<"title", u>>
Null == <<"null">>
EmptyString == <<"">>
BlankString == <<" ">>

\* a map entry that is not there; a promise that has not settled
Absent == <<"absent">>

\* timeout(5000), in time units of one second
TimeoutUnits == 5

\* What  await ea.fetchUrlMetadata(url)  can yield.
ElectronResults(u) ==
    { [kind |-> "result", title |-> TitleOf(u)],
      [kind |-> "result", title |-> Null],
      [kind |-> "result", title |-> EmptyString],
      [kind |-> "undefined", title |-> Null],
      [kind |-> "rejected", title |-> Null] }

\* The documents  this._http.get(url, {responseType: 'text'})  can deliver:
\* the captured text of <title>, of og:title (property before content) and of
\* og:title (content before property), Null where the pattern finds nothing;
\* empty is the empty document.
HtmlDocuments(u) ==
    { [empty |-> FALSE, titleTag |-> TitleOf(u), og |-> Null, ogReversed |-> Null],
      [empty |-> FALSE, titleTag |-> BlankString, og |-> TitleOf(u), ogReversed |-> Null],
      [empty |-> FALSE, titleTag |-> Null, og |-> TitleOf(u), ogReversed |-> Null],
      [empty |-> FALSE, titleTag |-> Null, og |-> Null, ogReversed |-> TitleOf(u)],
      [empty |-> FALSE, titleTag |-> Null, og |-> Null, ogReversed |-> Null],
      [empty |-> TRUE, titleTag |-> Null, og |-> Null, ogReversed |-> Null] }

\* String.prototype.trim on a captured title
TrimTitle(s) == IF s = BlankString THEN EmptyString ELSE s

\* _extractTitle
ExtractTitle(html) ==
    IF html.titleTag # Null THEN TrimTitle(html.titleTag)
    ELSE IF html.og # Null THEN TrimTitle(html.og)
    ELSE IF html.ogReversed # Null THEN TrimTitle(html.ogReversed)
    ELSE Null

\* a falsy string | null
Falsy(s) == s \in {Null, EmptyString}

\* mutant: the  || fallbackTitle  is missing
FinalTitleWithoutFallback(title, fallbackTitle) == title

\* title || fallbackTitle
FinalTitle(title, fallbackTitle) == IF Falsy(title) THEN fallbackTitle ELSE title

\* url.startsWith('file://')
IsFileUrl(u) == StartsWith(UrlText(u), FilePrefix)

\* this._cache.has(url)
CacheHas(u) == cache[u] # Absent

\* mutant: the pending request is not looked up
PendingHasNever(u) == FALSE

\* this._pendingRequests.has(url)
PendingHas(u) == pendingRequests[u] # 0

\* mutant: the outcome is not stored
CacheSetSkipped(c, u, value) == c

\* this._cache.set(url, value)
CacheSet(c, u, value) == [c EXCEPT ![u] = value]

\* this._isElectron && window.ea?.fetchUrlMetadata
UseElectron == isElectron /\ hasEa

\* a promise that is still waiting for its fetch
InFlight(p) == p.state \in {"electron", "http"}

ServiceStart ==
    /\ cache = [u \in Urls |-> Absent]
    /\ pendingRequests = [u \in Urls |-> 0]
    /\ promises = <<>>
    /\ calls = <<>>
    /\ fetchCount = [u \in Urls |-> 0]
    /\ fetchedSinceClear = [u \in Urls |-> 0]

RenderStart ==
    /\ rpc = "start"
    /\ htmlWithLinks = <<>>
    /\ hasMarkdown = FALSE
    /\ hasUrls = FALSE
    /\ urlStepInput = <<>>
    /\ out = <<>>

(***************************************************************************)
(* Input texts                                                             *)
(***************************************************************************)
\* The pieces an input text is made of: white space, raw HTML characters,
\* sentence punctuation, bare URLs (safe and with an unknown scheme inside),
\* markdown links with safe, dangerous, unknown and schemeless targets, an
\* anchor typed by the user, and a "://" that is no URL.
Pieces ==
    {
      \* a space
      <<" ">>,
      \* <
      <<"<">>,
      \* &"
      <<"&","\"">>,
      \* .
      <<".">>,
      \* www.a
      <<"w","w","w",".","a">>,
      \* http://b
      <<"h","t","t","p",":","/","/","b">>,
      \* www.c://d
      <<"w","w","w",".","c",":","/","/","d">>,
      \* [t](http://b)
      <<"[","t","]","(","h","t","t","p",":","/","/","b",")">>,
      \* [www.a&]( JavaScript:x)
      <<"[","w","w","w",".","a","&","]","("," ","J","a","v","a","S","c","r","i","p","t",":","x",")">>,
      \* [<](b")
      <<"[","<","]","(","b","\"",")">>,
      \* [t](ftp://d)
      <<"[","t","]","(","f","t","p",":","/","/","d",")">>,
      \* <a href="javascript:x">www.a</a>
      <<"<","a"," ","h","r","e","f","=","\"","j","a","v","a","s","c","r","i","p","t",":","x","\"",">","w","w","w",".","a","<","/","a",">">>,
      \* [t](//c)
      <<"[","t","]","(","/","/","c",")">>,
      \* javascript://e
      <<"j","a","v","a","s","c","r","i","p","t",":","/","/","e">>
    }

RECURSIVE Concat(_)
Concat(seqs) == IF seqs = <<>> THEN <<>> ELSE Head(seqs) \o Concat(Tail(seqs))

InputTexts ==
    { Concat(ps) : ps \in UNION { [1..k -> Pieces] : k \in 0..MaxPieces } }

(***************************************************************************)
(* RenderLinksPipe.transform                                               *)
(***************************************************************************)
RenderInit ==
    /\ text \in { FromInput(x) : x \in InputTexts }
    /\ renderLinks \in BOOLEAN
    /\ RenderStart
    /\ isElectron = FALSE
    /\ hasEa = FALSE
    /\ ServiceStart

\* text.includes('://') || text.includes('www.')
hasUrlHint == Includes(text, SchemeSep) \/ Includes(text, WwwPrefix)

\* text.includes('](')
hasMarkdownHint == Includes(text, MarkdownHint)

\* if (!text) return ''
ReturnEmpty ==
    /\ rpc = "start"
    /\ text = <<>>
    /\ out' = <<>>
    /\ rpc' = "done"
    /\ UNCHANGED <<text, renderLinks, htmlWithLinks, hasMarkdown, hasUrls, urlStepInput>>
    /\ UNCHANGED serviceVars

\* if (!renderLinks) return escaped text
ReturnDisabled ==
    /\ rpc = "start"
    /\ text # <<>>
    /\ ~renderLinks
    /\ out' = EscapeHtml(text)
    /\ rpc' = "done"
    /\ UNCHANGED <<text, renderLinks, htmlWithLinks, hasMarkdown, hasUrls, urlStepInput>>
    /\ UNCHANGED serviceVars

\* if (!hasUrlHint && !hasMarkdownHint) return escaped text
ReturnFastPath ==
    /\ rpc = "start"
    /\ text # <<>>
    /\ renderLinks
    /\ ~hasUrlHint /\ ~hasMarkdownHint
    /\ out' = EscapeHtml(text)
    /\ rpc' = "done"
    /\ UNCHANGED <<text, renderLinks, htmlWithLinks, hasMarkdown, hasUrls, urlStepInput>>
    /\ UNCHANGED serviceVars

\* let htmlWithLinks = text; ... the markdown replace
MarkdownStep ==
    /\ rpc = "start"
    /\ text # <<>>
    /\ renderLinks
    /\ ~(~hasUrlHint /\ ~hasMarkdownHint)
    /\ hasMarkdown' = MarkdownTest(text)
    /\ htmlWithLinks' = IF MarkdownTest(text) THEN MarkdownReplace(text) ELSE text
    /\ rpc' = "urls"
    /\ UNCHANGED <<text, renderLinks, hasUrls, urlStepInput, out>>
    /\ UNCHANGED serviceVars

\* hasUrls = URL_REGEX.test(htmlWithLinks); if (hasUrls) { segment, replace }
PlainUrlStep ==
    /\ rpc = "urls"
    /\ hasUrls' = UrlTest(htmlWithLinks)
    /\ urlStepInput' = htmlWithLinks
    /\ htmlWithLinks' = IF UrlTest(htmlWithLinks)
                        THEN PlainUrlReplace(htmlWithLinks)
                        ELSE htmlWithLinks
    /\ rpc' = "return"
    /\ UNCHANGED <<text, renderLinks, hasMarkdown, out>>
    /\ UNCHANGED serviceVars

\* if (!hasMarkdown && !hasUrls) return escaped text
ReturnEscaped ==
    /\ rpc = "return"
    /\ ~hasMarkdown /\ ~hasUrls
    /\ out' = EscapeHtml(text)
    /\ rpc' = "done"
    /\ UNCHANGED <<text, renderLinks, htmlWithLinks, hasMarkdown, hasUrls, urlStepInput>>
    /\ UNCHANGED serviceVars

\* return bypassSecurityTrustHtml(htmlWithLinks)
ReturnLinks ==
    /\ rpc = "return"
    /\ ~(~hasMarkdown /\ ~hasUrls)
    /\ out' = htmlWithLinks
    /\ rpc' = "done"
    /\ UNCHANGED <<text, renderLinks, htmlWithLinks, hasMarkdown, hasUrls, urlStepInput>>
    /\ UNCHANGED serviceVars

RenderNext ==
    \/ ReturnEmpty
    \/ ReturnDisabled
    \/ ReturnFastPath
    \/ MarkdownStep
    \/ PlainUrlStep
    \/ ReturnEscaped
    \/ ReturnLinks

RenderSpec == RenderInit /\ [][RenderNext]_vars

(***************************************************************************)
(* Reading the returned html                                               *)
(***************************************************************************)
\* a character of a literal the engine wrote and never escaped: the markup
\* of an anchor tag built by AnchorTag
IsEngineMarkup(cell) == cell.src = 0 /\ cell.n = 0

\* the engine's literal lit stands at position i of t
EngineLitAt(t, i, lit) ==
    /\ StartsWithAt(t, i, lit)
    /\ \A k \in 1..Len(lit) : IsEngineMarkup(t[i + k - 1])

\* position i of t starts an entity written by the escaper
EntityAt(t, i) ==
    /\ t[i].n >= 1
    /\ \E e \in {EntAmp, EntLt, EntGt, EntQuot} : StartsWithAt(t, i, e)

HrefAttr == <<"h","r","e","f","=","\"">>

\* t holds  href="  followed by a value that starts, trimmed and in lower
\* case, with javascript:, data: or vbscript:
HasDangerousHref(t) ==
    \E i \in 1..Len(t) :
        /\ StartsWithAt(t, i, HrefAttr)
        /\ LET value == ToLowerCase(Trim(SubSeq(t, i + Len(HrefAttr), Len(t))))
           IN  \E scheme \in dangerousSchemes : StartsWith(value, scheme)

\* The anchors the engine built in t, as <<first, last>> positions: from the
\* engine's own  <a href="  to the engine's next  </a>.
EngineAnchorSpans(t) ==
    { <<s, e>> \in (1..Len(t)) \X (1..Len(t)) :
        /\ EngineLitAt(t, s, AnchorOpen)
        /\ EngineLitAt(t, e - Len(AnchorClose) + 1, AnchorClose)
        /\ e > s
        /\ \A m \in (s + 1)..(e - Len(AnchorClose)) : ~EngineLitAt(t, m, AnchorClose) }

\* The spans of t that have the shape <a ...>...</a>, scanned from the left
\* and not overlapping, from position p on.
RECURSIVE ShapedAnchorSpans(_, _)
ShapedAnchorSpans(t, p) ==
    LET starts == { s \in p..Len(t) : AnchorMatchEnd(t, s) # 0 }
    IN  IF starts = {} THEN {}
        ELSE LET s == CHOOSE x \in starts : \A y \in starts : x <= y
                 e == AnchorMatchEnd(t, s)
             IN  { <<s, e>> } \cup ShapedAnchorSpans(t, e + 1)

\* the cells s..e of a occur, unchanged and adjacent, somewhere in b
OccursIn(a, s, e, b) ==
    \E q \in 1..(Len(b) - (e - s)) : SubSeq(b, q, q + (e - s)) = SubSeq(a, s, e)

(***************************************************************************)
(* Claims about RenderLinksPipe.transform                                  *)
(***************************************************************************)
\* C1: with link rendering enabled, every character of the returned html
\* that is not markup of an anchor tag built by the engine is escaped: it is
\* no raw "<", ">" or double quote, and an "&" starts an entity written by
\* the escaper.
C1_LiteralTextEscaped ==
    (rpc = "done" /\ renderLinks) =>
        \A i \in 1..Len(out) :
            \/ IsEngineMarkup(out[i])
            \/ /\ out[i].c \notin {"<", ">", "\""}
               /\ (out[i].c = "&" => EntityAt(out, i))

\* every anchor the engine built carries an href which, as written, the
\* scheme classifier accepts
EngineHrefsAccepted ==
    \A sp \in EngineAnchorSpans(out) :
        LET from == sp[1] + Len(AnchorOpen)
            mid == CHOOSE m \in from..sp[2] :
                       /\ EngineLitAt(out, m, AnchorMid)
                       /\ \A k \in from..(m - 1) : ~EngineLitAt(out, k, AnchorMid)
        IN  IsUrlSchemeSafe(SubSeq(out, from, mid - 1))

\* C2: the returned html holds no href whose value starts (trimmed, lower
\* case) with javascript:, data: or vbscript:, and every anchor in it was
\* built from a target the scheme classifier accepted.
C2_NoDangerousHref ==
    rpc = "done" => (~HasDangerousHref(out) /\ EngineHrefsAccepted)

C7_TrailingPunctuationKept ==
    (rpc = "done" /\ hasUrls /\ ~hasMarkdown) =>
        \A i \in 1..Len(text) : \E j \in 1..Len(out) : out[j].src = i

\* C9: within one call no character reaches the returned html through the
\* escaper more than once.
C9_EscapedOnce ==
    rpc = "done" => \A j \in 1..Len(out) : out[j].n <= 1

(***************************************************************************)
(* UrlMetadataService                                                      *)
(*                                                                         *)
(* JavaScript runs one task at a time: fetchTitle runs without interruption*)
(* up to its first await, and so does the rest of fetchPromise once the    *)
(* awaited fetch has answered.  A promise is a record                      *)
(*   [url, fallbackTitle, state, age, value]                               *)
(* with state "electron" (suspended at await ea.fetchUrlMetadata), "http"  *)
(* (suspended at await firstValueFrom) or "settled"; age counts the time   *)
(* units it has been waiting.  A call is a record                          *)
(*   [url, fallbackTitle, via, promise, settled, value]                    *)
(* with via the return statement that answered it.                         *)
(***************************************************************************)
Init ==
    /\ isElectron \in BOOLEAN
    \* window.ea is the bridge of the Electron preload script: a browser has none
    /\ hasEa \in (IF isElectron THEN BOOLEAN ELSE {FALSE})
    /\ ServiceStart
    /\ text = <<>>
    /\ renderLinks = TRUE
    /\ RenderStart

NewCall(u, fb, via, p, settled, value) ==
    [url |-> u, fallbackTitle |-> fb, via |-> via, promise |-> p,
     settled |-> settled, value |-> value]

\* return fallbackTitle   (file:// url)
ReturnForFile(u, fb) ==
    /\ calls' = Append(calls, NewCall(u, fb, "file", 0, TRUE, fb))
    /\ UNCHANGED <<cache, pendingRequests, promises, fetchCount, fetchedSinceClear>>

\* return this._cache.get(url)
ReturnFromCache(u, fb) ==
    /\ calls' = Append(calls, NewCall(u, fb, "cache", 0, TRUE, cache[u]))
    /\ UNCHANGED <<cache, pendingRequests, promises, fetchCount, fetchedSinceClear>>

\* return this._pendingRequests.get(url): the call settles as that promise
\* does, at once when it has settled already
ReturnPending(u, fb) ==
    LET id == pendingRequests[u]
    IN  /\ calls' = Append(calls,
                NewCall(u, fb, "pending", id, ~InFlight(promises[id]),
                        promises[id].value))
        /\ UNCHANGED <<cache, pendingRequests, promises, fetchCount, fetchedSinceClear>>

\* fetchPromise runs into an exception before its first await: the catch
\* block caches the fallback, the finally block deletes an entry that is not
\* there yet, and the settled promise is registered afterwards
StartThrows(u, fb) ==
    LET id == Len(promises) + 1
    IN  /\ promises' = Append(promises,
                [url |-> u, fallbackTitle |-> fb, state |-> "settled",
                 age |-> 0, value |-> fb])
        /\ cache' = CacheSet(cache, u, fb)
        /\ pendingRequests' = [[pendingRequests EXCEPT ![u] = 0] EXCEPT ![u] = id]
        /\ calls' = Append(calls, NewCall(u, fb, "fetch", id, TRUE, fb))
        /\ UNCHANGED <<fetchCount, fetchedSinceClear>>

\* fetchPromise issues the fetch and suspends at its await; the promise is
\* registered
StartFetch(u, fb) ==
    LET id == Len(promises) + 1
    IN  /\ promises' = Append(promises,
                [url |-> u, fallbackTitle |-> fb,
                 state |-> IF UseElectron THEN "electron" ELSE "http",
                 age |-> 0, value |-> Absent])
        /\ pendingRequests' = [pendingRequests EXCEPT ![u] = id]
        /\ fetchCount' = [fetchCount EXCEPT ![u] = @ + 1]
        /\ fetchedSinceClear' = [fetchedSinceClear EXCEPT ![u] = @ + 1]
        /\ calls' = Append(calls, NewCall(u, fb, "fetch", id, FALSE, Absent))
        /\ UNCHANGED cache

\* async fetchTitle(url, fallbackTitle), up to its first suspension.
\* throwsSync: ea.fetchUrlMetadata(url) throws instead of returning a promise.
FetchTitle(u, fb, throwsSync) ==
    /\ Len(calls) < MaxCalls
    /\ IF IsFileUrl(u) THEN ReturnForFile(u, fb)
       ELSE IF CacheHas(u) THEN ReturnFromCache(u, fb)
       ELSE IF PendingHas(u) THEN ReturnPending(u, fb)
       ELSE IF UseElectron /\ throwsSync THEN StartThrows(u, fb)
       ELSE StartFetch(u, fb)
    /\ UNCHANGED <<isElectron, hasEa, renderVars>>

\* The rest of fetchPromise after its await: the try block's tail or the
\* catch block, then the finally block.  Every call that returned this
\* promise settles with it.
Settle(id, threw, title) ==
    LET p == promises[id]
        finalTitle == IF threw THEN p.fallbackTitle
                      ELSE FinalTitle(title, p.fallbackTitle)
    IN  /\ cache' = CacheSet(cache, p.url, finalTitle)
        /\ pendingRequests' = [pendingRequests EXCEPT ![p.url] = 0]
        /\ promises' = [promises EXCEPT ![id] =
                            [@ EXCEPT !.state = "settled", !.value = finalTitle]]
        /\ calls' = [c \in 1..Len(calls) |->
                        IF calls[c].promise = id /\ ~calls[c].settled
                        THEN [calls[c] EXCEPT !.settled = TRUE, !.value = finalTitle]
                        ELSE calls[c]]
        /\ UNCHANGED <<isElectron, hasEa, fetchCount, fetchedSinceClear, renderVars>>

\* the main process answers: title = result.title, which throws when result
\* is undefined; a rejected promise throws at the await
ElectronAnswers(id, result) ==
    /\ promises[id].state = "electron"
    /\ Settle(id, result.kind # "result", result.title)

\* the http request delivers a document: if (html) title = _extractTitle(html)
HttpAnswers(id, html) ==
    /\ promises[id].state = "http"
    /\ promises[id].age < TimeoutUnits
    /\ Settle(id, FALSE, IF html.empty THEN Null ELSE ExtractTitle(html))

\* the http request fails, or timeout(5000) expires: catchError yields null
HttpFails(id) ==
    /\ promises[id].state = "http"
    /\ Settle(id, FALSE, Null)

\* One time unit passes.  An http request of age TimeoutUnits is ended by its
\* timer before more time passes; nothing ends a request to the main process.
Tick ==
    /\ \E id \in 1..Len(promises) : InFlight(promises[id])
    /\ \A id \in 1..Len(promises) :
           /\ promises[id].state = "http" => promises[id].age < TimeoutUnits
           /\ InFlight(promises[id]) => promises[id].age < MaxAge
    /\ promises' = [id \in 1..Len(promises) |->
                        IF InFlight(promises[id])
                        THEN [promises[id] EXCEPT !.age = @ + 1]
                        ELSE promises[id]]
    /\ UNCHANGED <<isElectron, hasEa, cache, pendingRequests, calls,
                   fetchCount, fetchedSinceClear, renderVars>>

\* clearCache()
ClearCache ==
    /\ cache' = [u \in Urls |-> Absent]
    /\ fetchedSinceClear' = [u \in Urls |-> 0]
    /\ UNCHANGED <<isElectron, hasEa, pendingRequests, promises, calls,
                   fetchCount, renderVars>>

\* a caller calls fetchTitle
CallFetchTitle ==
    \E u \in Urls, fb \in Fallbacks, throwsSync \in BOOLEAN :
        FetchTitle(u, fb, throwsSync)

ElectronAnswer ==
    \E id \in 1..Len(promises) :
        \E result \in ElectronResults(promises[id].url) :
            ElectronAnswers(id, result)

HttpAnswer ==
    \E id \in 1..Len(promises) :
        \E html \in HtmlDocuments(promises[id].url) :
            HttpAnswers(id, html)

HttpFailure == \E id \in 1..Len(promises) : HttpFails(id)

\* The service without the passing of time: every request has age 0, and
\* the expiry of the timer is one of the ways an http request fails.
Next ==
    \/ CallFetchTitle
    \/ ElectronAnswer
    \/ HttpAnswer
    \/ HttpFailure
    \/ ClearCache

Spec == Init /\ [][Next]_vars

\* The service with the clock.
TimedCallFetchTitle == Len(calls) < MaxTimedCalls /\ CallFetchTitle

TimedNext ==
    \/ TimedCallFetchTitle
    \/ ElectronAnswer
    \/ HttpAnswer
    \/ HttpFailure
    \/ ClearCache
    \/ Tick

TimedSpec == Init /\ [][TimedNext]_vars

(***************************************************************************)
(* Claims about UrlMetadataService                                         *)
(***************************************************************************)
InFlightFor(u) ==
    { id \in 1..Len(promises) : promises[id].url = u /\ InFlight(promises[id]) }

\* C3: at most one fetch per url is in flight at any time, and a call that
\* found a request pending was handed that request's promise: it settles
\* when the promise does, with the promise's value.
C3_SingleFlight ==
    /\ \A u \in Urls : Cardinality(InFlightFor(u)) <= 1
    /\ \A c \in 1..Len(calls) :
           calls[c].via = "pending" =>
               LET p == promises[calls[c].promise]
               IN  /\ p.url = calls[c].url
                   /\ calls[c].settled <=> ~InFlight(p)
                   /\ calls[c].settled => calls[c].value = p.value

\* C3 witness: a call joined the one fetch issued for its url and received
\* the title that fetch retrieved.
C3_Witness ==
    \E c \in 1..Len(calls) :
        /\ calls[c].via = "pending"
        /\ calls[c].settled
        /\ fetchCount[calls[c].url] = 1
        /\ calls[c].value = TitleOf(calls[c].url)

\* C4: no call waits longer than the timeout: a call that has not settled
\* has been waiting for at most TimeoutUnits.
C4_BoundedWait ==
    \A c \in 1..Len(calls) :
        ~calls[c].settled => promises[calls[c].promise].age <= TimeoutUnits

\* C5 as stated: over the lifetime of the service a fetch is issued at most
\* once per url.
C5_FetchedOncePerLifetime ==
    \A u \in Urls : fetchCount[u] <= 1

\* C5 amended: since the last clearCache a fetch was issued at most once per
\* url, and once that fetch has settled its outcome, title or fallback, is
\* in the cache.
C5_FetchedOncePerClear ==
    \A u \in Urls :
        /\ fetchedSinceClear[u] <= 1
        /\ (fetchedSinceClear[u] = 1 /\ InFlightFor(u) = {}) => CacheHas(u)

\* C5 witness: a fetch ended with the fallback, and a later call for the
\* same url was answered from the cache.
C5_Witness ==
    \E c \in 1..Len(calls) :
        /\ calls[c].via = "cache"
        /\ calls[c].value \in Fallbacks
        /\ fetchCount[calls[c].url] = 1
        /\ fetchedSinceClear[calls[c].url] = 1

\* for a file:// url nothing is fetched, cached or registered
FileUrlsUntouched ==
    \A u \in Urls :
        IsFileUrl(u) =>
            /\ fetchCount[u] = 0
            /\ ~CacheHas(u)
            /\ ~PendingHas(u)
            /\ \A id \in 1..Len(promises) : promises[id].url # u

C10_PendingExactlyInFlight ==
    \A u \in Urls :
        /\ PendingHas(u) <=> InFlightFor(u) # {}
        /\ PendingHas(u) => pendingRequests[u] \in InFlightFor(u)

====
